---- MODULE Spec2Model ----
(***************************************************************************)
(* A model of the subxt block access layer:                                *)
(*   - the event cache shared by Block and its Extrinsics (get_events),    *)
(*   - the chain-head block handle (ChainHeadBlock) and its operations,    *)
(*   - the storage address validation helpers (storage/utils.rs).          *)
(* Three specifications share the module's variables; each leaves the      *)
(* variables of the other two parts at their initial values.               *)
(***************************************************************************)
EXTENDS Naturals, Integers, Sequences, FiniteSets, TLC

VARIABLES
    cached_events,  \* the cell of CachedEvents: None or Some(events)
    mutex,          \* the AsyncMutex of CachedEvents: 0 = free, r = held by reader r
    fetch_count,    \* number of EventsClient::at fetches issued to the node
    node_events,    \* the event list the node holds for the block hash
    reader,         \* one get_events call per reader: position, caller, result
    conv_optional,  \* the conversion applied: FALSE to Vec<u8>, TRUE to Option<Vec<u8>>
    conv_event,     \* the ChainHeadEvent handed to try_from
    conv_result,    \* what try_from returned
    metadata,       \* the metadata snapshot of the client
    address,        \* the StorageAddress handed to the storage utils
    pallet_used,    \* name of the pallet whose PalletMetadata was handed to validate
    lookup_result,  \* what lookup_entry_details returned
    validate_result, \* what validate_storage_address returned
    handle_live,    \* the ChainHeadBlock handle has not been consumed by unpin
    op,             \* one call on the handle per slot: kind, position, locals, result
    sub,            \* the result subscription of each call, as the peer feeds it
    sent,           \* the requests each call has sent to the peer
    buffer0,        \* the output buffer as the caller handed it in
    buffer,         \* the output buffer write_storage_address_root_bytes extends
    written,        \* the addresses written to the buffer so far, in call order
    key_address,    \* the address last handed to storage_address_root_bytes
    root_result,    \* what storage_address_root_bytes returned for it
    ev_events,      \* the items of Events::iter() for one block
    ev_iter,        \* per extrinsic index: what ExtrinsicEvents::iter() yielded
    body,           \* details.block.extrinsics of a BlockBody
    it_pos,         \* position of the live extrinsics() iterator, -1 without one
    it_views,       \* the Extrinsic views the live iterator has yielded
    it_done         \* the views of each iterator run to its end, in call order

cacheVars == <<cached_events, mutex, fetch_count, node_events, reader>>
convVars == <<conv_optional, conv_event, conv_result>>
utilVars == <<metadata, address, pallet_used, lookup_result, validate_result>>
headVars == <<handle_live, op, sub, sent>>
keyVars == <<buffer0, buffer, written, key_address, root_result>>
corrVars == <<ev_events, ev_iter>>
bodyVars == <<body, it_pos, it_views, it_done>>
pureVars == <<keyVars, corrVars, bodyVars>>
vars == <<cacheVars, convVars, utilVars, headVars, pureVars>>

(***************************************************************************)
(* Bounds.                                                                 *)
(***************************************************************************)
MaxReaders == 2
MaxExtrinsics == 2
MaxHexLen == 4
MaxHash == 2
MaxOps == 2
MaxStream == 2
MaxWrites == 2
MaxEvents == 3
MaxPasses == 3

(***************************************************************************)
(* Common value shapes.  Option<T> is a sequence of length <= 1, a Result  *)
(* is a tagged pair.                                                       *)
(***************************************************************************)
None == <<>>
Some(x) == <<x>>
Ok(v) == <<"Ok", v>>
Err(e) == <<"Err", e>>
Pending == <<>>
IsOk(res) == Len(res) = 2 /\ res[1] = "Ok"
IsErr(res) == Len(res) = 2 /\ res[1] = "Err"

\* The parts of the model a specification does not exercise stay as constructed.
IdleCache ==
    /\ cached_events = <<>>
    /\ mutex = 0
    /\ fetch_count = 0
    /\ node_events = <<>>
    /\ reader = <<>>
IdleConvert ==
    /\ conv_optional = FALSE
    /\ conv_event = <<>>
    /\ conv_result = <<>>
IdleUtils ==
    /\ metadata = <<>>
    /\ address = <<>>
    /\ pallet_used = ""
    /\ lookup_result = <<>>
    /\ validate_result = <<>>
IdleHead ==
    /\ handle_live = TRUE
    /\ op = <<>>
    /\ sub = <<>>
    /\ sent = <<>>
IdleKeys ==
    /\ buffer0 = <<>>
    /\ buffer = <<>>
    /\ written = <<>>
    /\ key_address = <<>>
    /\ root_result = <<>>
IdleCorrelate ==
    /\ ev_events = <<>>
    /\ ev_iter = <<>>
IdleBody ==
    /\ body = <<>>
    /\ it_pos = -1
    /\ it_views = <<>>
    /\ it_done = <<>>

(***************************************************************************)
(* Event lists.  An item of Events::iter() is a decoded event with its     *)
(* phase, or a decode error.                                               *)
(***************************************************************************)
EventOk(phase, idx, name) == [err |-> FALSE, phase |-> phase, idx |-> idx, name |-> name]
EventErr(name) == [err |-> TRUE, phase |-> "", idx |-> 0, name |-> name]

NodeEventLists ==
    { <<>>,
      << EventOk("Initialization", 0, "NewBlock"),
         EventOk("ApplyExtrinsic", 0, "Transfer"),
         EventOk("ApplyExtrinsic", 1, "Transfer") >>,
      << EventOk("ApplyExtrinsic", 1, "Deposit"),
         EventErr("decode"),
         EventOk("Finalization", 0, "Reward") >> }

(***************************************************************************)
(* The block body: one byte-span per extrinsic, in on-chain order.         *)
(***************************************************************************)
BodyExtrinsics == [i \in 1..MaxExtrinsics |-> <<i, i + 1>>]

\* T::Hashing::hash_of is a parameter of Config; the model keeps the bytes it
\* was computed from under a tag.
hash_of(bytes) == [hashed |-> bytes]

Readers == 1..MaxReaders

\* Who calls get_events: Block::events, or Extrinsic::events of the extrinsic
\* with the given index.
BlockCaller == [kind |-> "Block", index |-> 0]
ExtrinsicCaller(i) == [kind |-> "Extrinsic", index |-> i]
Callers == {BlockCaller} \cup {ExtrinsicCaller(i - 1) : i \in 1..MaxExtrinsics}

IdleReader == [pc |-> "idle", who |-> BlockCaller, events |-> Pending, result |-> Pending]

\* ExtrinsicEvents::new(ext_hash, idx, events)
ExtrinsicEvents_new(ext_hash, idx, events) ==
    [ext_hash |-> ext_hash, idx |-> idx, events |-> events]

\* What the public call returns once get_events returned `res`:
\* Block::events returns it as is, Extrinsic::events wraps an Ok value.
EventsResult(who, res) ==
    IF who.kind = "Block" \/ IsErr(res)
    THEN res
    ELSE Ok(ExtrinsicEvents_new(hash_of(BodyExtrinsics[who.index + 1]), who.index, res[2]))

(***************************************************************************)
(* get_events, step by step.  Suspension points: the lock().await and the  *)
(* EventsClient::at(..).await.                                             *)
(***************************************************************************)

\* Block::events / Extrinsic::events is called and get_events starts to wait
\* for the lock.
CallEvents(r, who) ==
    /\ reader[r].pc = "idle"
    /\ reader' = [reader EXCEPT ![r] = [@ EXCEPT !.pc = "waiting", !.who = who]]
    /\ UNCHANGED <<cached_events, mutex, fetch_count, node_events, convVars, utilVars, headVars, pureVars>>

\* What get_events does to the cell once its fetch returned `events`.
StoreFetched(cell, events) == cell

\* lock().await completing whether or not another call holds the guard.
AcquireLock_NoExclusion(r) ==
    /\ reader[r].pc = "waiting"
    /\ IF cached_events # None
       THEN /\ reader' = [reader EXCEPT ![r] =
                    [@ EXCEPT !.pc = "done",
                              !.events = Ok(cached_events[1]),
                              !.result = EventsResult(reader[r].who, Ok(cached_events[1]))]]
            /\ UNCHANGED <<mutex, fetch_count>>
       ELSE /\ reader' = [reader EXCEPT ![r] = [@ EXCEPT !.pc = "fetching"]]
            /\ mutex' = r
            /\ fetch_count' = fetch_count + 1
    /\ UNCHANGED <<cached_events, node_events, convVars, utilVars, headVars, pureVars>>

\* lock().await completes; `match &*lock`: a populated cell is cloned and
\* returned (the guard is dropped on return), an empty one starts the fetch
\* with the guard still held.
AcquireLock(r) ==
    /\ reader[r].pc = "waiting"
    /\ mutex = 0
    /\ IF cached_events # None
       THEN /\ reader' = [reader EXCEPT ![r] =
                    [@ EXCEPT !.pc = "done",
                              !.events = Ok(cached_events[1]),
                              !.result = EventsResult(reader[r].who, Ok(cached_events[1]))]]
            /\ UNCHANGED <<mutex, fetch_count>>
       ELSE /\ reader' = [reader EXCEPT ![r] = [@ EXCEPT !.pc = "fetching"]]
            /\ mutex' = r
            /\ fetch_count' = fetch_count + 1
    /\ UNCHANGED <<cached_events, node_events, convVars, utilVars, headVars, pureVars>>

\* The fetch returns the node's events: get_events returns Ok(events) and the
\* guard is dropped.
FetchOk(r) ==
    /\ reader[r].pc = "fetching"
    /\ mutex = r
    /\ cached_events' = StoreFetched(cached_events, node_events)
    /\ reader' = [reader EXCEPT ![r] =
            [@ EXCEPT !.pc = "done",
                      !.events = Ok(node_events),
                      !.result = EventsResult(reader[r].who, Ok(node_events))]]
    /\ mutex' = 0
    /\ UNCHANGED <<fetch_count, node_events, convVars, utilVars, headVars, pureVars>>

\* The fetch failing with the guard leaked.
FetchErr_KeepsLock(r) ==
    /\ reader[r].pc = "fetching"
    /\ mutex = r
    /\ reader' = [reader EXCEPT ![r] =
            [@ EXCEPT !.pc = "done",
                      !.events = Err("Rpc"),
                      !.result = Err("Rpc")]]
    /\ UNCHANGED <<mutex, cached_events, fetch_count, node_events, convVars, utilVars, headVars, pureVars>>

\* The fetch fails: `?` returns the error and the guard is dropped.
FetchErr(r) ==
    /\ reader[r].pc = "fetching"
    /\ mutex = r
    /\ reader' = [reader EXCEPT ![r] =
            [@ EXCEPT !.pc = "done",
                      !.events = Err("Rpc"),
                      !.result = Err("Rpc")]]
    /\ mutex' = 0
    /\ UNCHANGED <<cached_events, fetch_count, node_events, convVars, utilVars, headVars, pureVars>>

\* Dropping the future with its guard leaked.
Abandon_KeepsLock(r) ==
    /\ reader[r].pc \in {"waiting", "fetching"}
    /\ reader' = [reader EXCEPT ![r] = [@ EXCEPT !.pc = "cancelled"]]
    /\ UNCHANGED <<mutex, cached_events, fetch_count, node_events, convVars, utilVars, headVars, pureVars>>

\* The caller drops the future at a suspension point; a held guard is dropped
\* with it.
Abandon(r) ==
    /\ reader[r].pc \in {"waiting", "fetching"}
    /\ reader' = [reader EXCEPT ![r] = [@ EXCEPT !.pc = "cancelled"]]
    /\ mutex' = IF mutex = r THEN 0 ELSE mutex
    /\ UNCHANGED <<cached_events, fetch_count, node_events, convVars, utilVars, headVars, pureVars>>

\* Block::new: cached_events is Default::default(), the lock is free.
InitCache ==
    /\ cached_events = None
    /\ mutex = 0
    /\ fetch_count = 0
    /\ node_events \in NodeEventLists
    /\ reader = [r \in Readers |-> IdleReader]
    /\ IdleConvert
    /\ IdleUtils
    /\ IdleHead
    /\ IdleKeys
    /\ IdleCorrelate
    /\ IdleBody

NextCache ==
    \/ \E r \in Readers, who \in Callers : CallEvents(r, who)
    \/ \E r \in Readers : AcquireLock(r)
    \/ \E r \in Readers : FetchOk(r)
    \/ \E r \in Readers : FetchErr(r)
    \/ \E r \in Readers : Abandon(r)

SpecCache == InitCache /\ [][NextCache]_vars

(***************************************************************************)
(* Claims about the event cache.                                           *)
(***************************************************************************)
Called == {r \in Readers : reader[r].pc # "idle"}
Returned == {r \in Readers : reader[r].pc = "done" /\ IsOk(reader[r].events)}

\* C1 (as claimed): when N >= 1 get_events calls sharing one cell have all
\* returned their events, exactly one fetch was issued to the node and all
\* callers hold equal event lists.
C1_SingleFlight ==
    (Called # {} /\ Called = Returned) =>
        /\ fetch_count = 1
        /\ \A r, s \in Returned : reader[r].events = reader[s].events

\* C2 (as claimed): a get_events call that found the cell empty and whose
\* fetch succeeded has stored the fetched list in the cell by the time it
\* has released the lock.
C2_FetchedIsStored ==
    \A r \in Returned : cached_events = Some(reader[r].events[2])

(***************************************************************************)
(* Chain-head events and their conversion (block_types.rs:72-141).         *)
(* A String is a sequence of one-character strings.                        *)
(***************************************************************************)

\* ChainHeadError
CHInaccessible(msg) == <<"Inaccessible", msg>>
CHError(msg) == <<"Error", msg>>
CHDisjoint == <<"Disjoint">>
CHResourceNonExistent == <<"ResourceNonExistent">>
CHOther(msg) == <<"Other", msg>>

\* ChainHeadEvent<T>: Done(ChainHeadResult { result }), Inaccessible(err),
\* Error(err), Disjoint.
Done(result) == [shape |-> "Done", result |-> result, error |-> ""]
Inaccessible(error) == [shape |-> "Inaccessible", result |-> <<>>, error |-> error]
Error(error) == [shape |-> "Error", result |-> <<>>, error |-> error]
Disjoint == [shape |-> "Disjoint", result |-> <<>>, error |-> ""]

\* str::trim_start_matches("0x"): the prefix is removed repeatedly.
RECURSIVE trim_start_matches_0x(_)
trim_start_matches_0x(s) ==
    IF Len(s) >= 2 /\ s[1] = "0" /\ s[2] = "x"
    THEN trim_start_matches_0x(SubSeq(s, 3, Len(s)))
    ELSE s

HexLower == <<"0", "1", "2", "3", "4", "5", "6", "7", "8", "9", "a", "b", "c", "d", "e", "f">>
HexUpper == <<"0", "1", "2", "3", "4", "5", "6", "7", "8", "9", "A", "B", "C", "D", "E", "F">>
IsHexChar(c) == \E i \in 1..16 : HexLower[i] = c \/ HexUpper[i] = c
HexVal(c) == (CHOOSE i \in 1..16 : HexLower[i] = c \/ HexUpper[i] = c) - 1

\* hex::decode: an odd length is refused first, then the first character that
\* is no hex digit (with its 0-based position); otherwise one byte per pair.
hex_decode(s) ==
    IF Len(s) % 2 = 1
    THEN Err("Odd number of digits")
    ELSE IF \E i \in 1..Len(s) : ~IsHexChar(s[i])
    THEN LET i == CHOOSE j \in 1..Len(s) :
                    /\ ~IsHexChar(s[j])
                    /\ \A l \in 1..(j - 1) : IsHexChar(s[l])
         IN Err("Invalid character '" \o s[i] \o "' at position " \o ToString(i - 1))
    ELSE Ok([i \in 1..(Len(s) \div 2) |-> 16 * HexVal(s[2 * i - 1]) + HexVal(s[2 * i])])

\* The plain conversion with its Disjoint arm building the Error kind.
VecU8_try_from_DisjointAsError(event) ==
    CASE event.shape = "Done" ->
            LET bytes == hex_decode(trim_start_matches_0x(event.result))
            IN IF IsErr(bytes) THEN Err(CHOther(bytes[2])) ELSE Ok(bytes[2])
      [] event.shape = "Inaccessible" -> Err(CHInaccessible(event.error))
      [] event.shape = "Error" -> Err(CHError(event.error))
      [] event.shape = "Disjoint" -> Err(CHError("Disjoint"))

\* impl TryFrom<ChainHeadEvent<String>> for Vec<u8>
VecU8_try_from(event) ==
    CASE event.shape = "Done" ->
            LET bytes == hex_decode(trim_start_matches_0x(event.result))
            IN IF IsErr(bytes) THEN Err(CHOther(bytes[2])) ELSE Ok(bytes[2])
      [] event.shape = "Inaccessible" -> Err(CHInaccessible(event.error))
      [] event.shape = "Error" -> Err(CHError(event.error))
      [] event.shape = "Disjoint" -> Err(CHDisjoint)

\* The optional conversion with its Inaccessible arm building the Error kind.
OptionVecU8_try_from_SwappedArm(event) ==
    CASE event.shape = "Done" ->
            IF event.result = None
            THEN Ok(None)
            ELSE LET res == VecU8_try_from(Done(event.result[1]))
                 IN IF IsErr(res) THEN res ELSE Ok(Some(res[2]))
      [] event.shape = "Inaccessible" -> Err(CHError(event.error))
      [] event.shape = "Error" -> Err(CHError(event.error))
      [] event.shape = "Disjoint" -> Err(CHDisjoint)

\* impl TryFrom<ChainHeadEvent<Option<String>>> for Option<Vec<u8>>
OptionVecU8_try_from(event) ==
    CASE event.shape = "Done" ->
            IF event.result = None
            THEN Ok(None)
            ELSE LET res == VecU8_try_from(Done(event.result[1]))
                 IN IF IsErr(res) THEN res ELSE Ok(Some(res[2]))
      [] event.shape = "Inaccessible" -> Err(CHInaccessible(event.error))
      [] event.shape = "Error" -> Err(CHError(event.error))
      [] event.shape = "Disjoint" -> Err(CHDisjoint)

(***************************************************************************)
(* The two conversions applied to every event over a small alphabet.       *)
(***************************************************************************)
HexAlphabet == {"0", "x", "4", "g"}
HexStrings == UNION {[1..n -> HexAlphabet] : n \in 0..MaxHexLen}
Reasons == {"pruned", "limit reached"}

PlainEvents ==
    {Done(s) : s \in HexStrings}
        \cup {Inaccessible(e) : e \in Reasons}
        \cup {Error(e) : e \in Reasons}
        \cup {Disjoint}
OptionalEvents ==
    {Done(Some(s)) : s \in HexStrings}
        \cup {Done(None)}
        \cup {Inaccessible(e) : e \in Reasons}
        \cup {Error(e) : e \in Reasons}
        \cup {Disjoint}

InitConvert ==
    /\ \/ conv_optional = FALSE /\ conv_event \in PlainEvents
       \/ conv_optional = TRUE /\ conv_event \in OptionalEvents
    /\ conv_result = Pending
    /\ IdleCache
    /\ IdleUtils
    /\ IdleHead
    /\ IdleKeys
    /\ IdleCorrelate
    /\ IdleBody

ConvertPlain ==
    /\ conv_result = Pending
    /\ ~conv_optional
    /\ conv_result' = VecU8_try_from(conv_event)
    /\ UNCHANGED <<conv_optional, conv_event, cacheVars, utilVars, headVars, pureVars>>

ConvertOptional ==
    /\ conv_result = Pending
    /\ conv_optional
    /\ conv_result' = OptionVecU8_try_from(conv_event)
    /\ UNCHANGED <<conv_optional, conv_event, cacheVars, utilVars, headVars, pureVars>>

NextConvert == ConvertPlain \/ ConvertOptional

SpecConvert == InitConvert /\ [][NextConvert]_vars

\* C5: a non-Done event is converted to the error kind of its own shape with
\* its reason unchanged, by both conversions; a Done event is never converted
\* to one of these three kinds, so no non-Done event yields a success value
\* and no two shapes share an error kind.
C5_NonDoneMapsOneToOne ==
    conv_result # Pending =>
        /\ conv_event.shape = "Inaccessible" =>
                conv_result = Err(CHInaccessible(conv_event.error))
        /\ conv_event.shape = "Error" =>
                conv_result = Err(CHError(conv_event.error))
        /\ conv_event.shape = "Disjoint" =>
                conv_result = Err(CHDisjoint)
        /\ conv_event.shape = "Done" =>
                \/ IsOk(conv_result)
                \/ IsErr(conv_result) /\ conv_result[2][1] = "Other"

\* The optional-payload conversion has been applied to an Inaccessible event.
C5_Witness ==
    /\ conv_optional
    /\ conv_event = Inaccessible("pruned")
    /\ conv_result = Err(CHInaccessible("pruned"))

(***************************************************************************)
(* Metadata and the storage utils (core/src/storage/utils.rs).             *)
(*                                                                         *)
(* A metadata snapshot maps every pallet name to a pallet that may be      *)
(* absent, may expose no storage section, and otherwise lists its entries, *)
(* each absent or present with the hash of its layout.                     *)
(***************************************************************************)
PalletNames == {"System", "Balances"}
EntryNames == {"Events", "TotalIssuance"}
Hashes == 1..MaxHash

AbsentEntry(name) == [exists |-> FALSE, name |-> name, hash |-> 0, arity |-> 0]
Entry(name, hash, arity) == [exists |-> TRUE, name |-> name, hash |-> hash, arity |-> arity]
EntryShapes(name) == {AbsentEntry(name)} \cup {Entry(name, h, 0) : h \in Hashes}
StorageSections == {s \in [EntryNames -> UNION {EntryShapes(n) : n \in EntryNames}] :
                        \A n \in EntryNames : s[n].name = n}
NoEntries == [n \in EntryNames |-> AbsentEntry(n)]

AbsentPallet == [exists |-> FALSE, has_storage |-> FALSE, entries |-> NoEntries]
PalletWithoutStorage == [exists |-> TRUE, has_storage |-> FALSE, entries |-> NoEntries]
PalletWithStorage(entries) == [exists |-> TRUE, has_storage |-> TRUE, entries |-> entries]
PalletShapes ==
    {AbsentPallet, PalletWithoutStorage} \cup {PalletWithStorage(s) : s \in StorageSections}
Metadatas == [PalletNames -> PalletShapes]

\* A StorageAddress: pallet_name(), entry_name(), validation_hash() and the
\* map-key parts it was built with.
Address(pallet_name, entry_name, validation_hash, keys) ==
    [pallet_name |-> pallet_name, entry_name |-> entry_name,
     validation_hash |-> validation_hash, keys |-> keys]
Addresses ==
    {Address(p, e, h, <<>>) :
        p \in PalletNames, e \in EntryNames, h \in {None} \cup {Some(x) : x \in Hashes}}

\* MetadataError
PalletNameNotFound(name) == <<"PalletNameNotFound", name>>
StorageNotFoundInPallet(name) == <<"StorageNotFoundInPallet", name>>
StorageEntryNotFound(name) == <<"StorageEntryNotFound", name>>
IncompatibleCodegen == <<"IncompatibleCodegen">>

Unit == <<>>

\* PalletMetadata<'a>: a handle on one pallet of the snapshot.
PalletMetadata(md, name) == [name |-> name, pallet |-> md[name]]

\* Metadata::pallet_by_name_err
pallet_by_name_err(md, pallet_name) ==
    IF pallet_name \in DOMAIN md /\ md[pallet_name].exists
    THEN Ok(PalletMetadata(md, pallet_name))
    ELSE Err(PalletNameNotFound(pallet_name))

\* PalletMetadata::storage
pallet_storage(pallet) ==
    IF pallet.pallet.has_storage THEN Some(pallet.pallet.entries) ELSE None

\* StorageMetadata::entry_by_name
entry_by_name(storage, entry_name) ==
    IF entry_name \in DOMAIN storage /\ storage[entry_name].exists
    THEN Some(storage[entry_name])
    ELSE None

\* PalletMetadata::storage_hash
storage_hash(pallet, entry_name) ==
    IF pallet_storage(pallet) = None
    THEN None
    ELSE LET entry == entry_by_name(pallet_storage(pallet)[1], entry_name)
         IN IF entry = None THEN None ELSE Some(entry[1].hash)

\* lookup_entry_details with the storage section consulted for the entry
\* before its absence is reported.
lookup_entry_details_EntryFirst(pallet_name, entry_name, md) ==
    LET pallet_metadata == pallet_by_name_err(md, pallet_name)
    IN IF IsErr(pallet_metadata)
       THEN pallet_metadata
       ELSE LET storage_entry == entry_by_name(pallet_metadata[2].pallet.entries, entry_name)
            IN IF storage_entry = None
               THEN Err(StorageEntryNotFound(entry_name))
               ELSE IF pallet_storage(pallet_metadata[2]) = None
               THEN Err(StorageNotFoundInPallet(pallet_name))
               ELSE Ok([pallet |-> pallet_metadata[2], entry |-> storage_entry[1]])

\* lookup_entry_details
lookup_entry_details(pallet_name, entry_name, md) ==
    LET pallet_metadata == pallet_by_name_err(md, pallet_name)
    IN IF IsErr(pallet_metadata)
       THEN pallet_metadata
       ELSE LET storage_metadata == pallet_storage(pallet_metadata[2])
            IN IF storage_metadata = None
               THEN Err(StorageNotFoundInPallet(pallet_name))
               ELSE LET storage_entry == entry_by_name(storage_metadata[1], entry_name)
                    IN IF storage_entry = None
                       THEN Err(StorageEntryNotFound(entry_name))
                       ELSE Ok([pallet |-> pallet_metadata[2], entry |-> storage_entry[1]])

\* validate_storage accepting any entry the pallet has a hash for.
validate_storage_NoCompare(pallet, storage_name, hash) ==
    IF storage_hash(pallet, storage_name) = None
    THEN Err(IncompatibleCodegen)
    ELSE Ok(Unit)

\* validate_storage
validate_storage(pallet, storage_name, hash) ==
    LET expected_hash == storage_hash(pallet, storage_name)
    IN IF expected_hash = None
       THEN Err(IncompatibleCodegen)
       ELSE IF expected_hash[1] # hash
       THEN Err(IncompatibleCodegen)
       ELSE Ok(Unit)

\* validate_storage_address
validate_storage_address(addr, pallet) ==
    IF addr.validation_hash # None
    THEN LET res == validate_storage(pallet, addr.entry_name, addr.validation_hash[1])
         IN IF IsErr(res) THEN res ELSE Ok(Unit)
    ELSE Ok(Unit)

\* The utils applied to every address against every metadata snapshot.
InitUtils ==
    /\ metadata \in Metadatas
    /\ address \in Addresses
    /\ pallet_used = ""
    /\ lookup_result = Pending
    /\ validate_result = Pending
    /\ IdleCache
    /\ IdleConvert
    /\ IdleHead
    /\ IdleKeys
    /\ IdleCorrelate
    /\ IdleBody

LookupEntry ==
    /\ lookup_result = Pending
    /\ lookup_result' = lookup_entry_details(address.pallet_name, address.entry_name, metadata)
    /\ UNCHANGED <<metadata, address, pallet_used, validate_result, cacheVars, convVars, headVars, pureVars>>

\* The caller hands over the handle of any pallet of the snapshot.
ValidateAddress(name) ==
    /\ validate_result = Pending
    /\ metadata[name].exists
    /\ pallet_used' = name
    /\ validate_result' = validate_storage_address(address, PalletMetadata(metadata, name))
    /\ UNCHANGED <<metadata, address, lookup_result, cacheVars, convVars, headVars, pureVars>>

NextUtils ==
    \/ LookupEntry
    \/ \E name \in PalletNames : ValidateAddress(name)

SpecUtils == InitUtils /\ [][NextUtils]_vars

\* The entry the address names, as the pallet handed to validate has it.
UsedEntry == metadata[pallet_used].entries[address.entry_name]
ModuleHashMatches ==
    /\ metadata[pallet_used].has_storage
    /\ UsedEntry.exists
    /\ UsedEntry.hash = address.validation_hash[1]

\* C9: validate_storage_address succeeds exactly when the address carries no
\* expected hash or the pallet has a storage hash for the entry equal to the
\* expected one; every failure is IncompatibleCodegen.
C9_ValidateIff ==
    validate_result # Pending =>
        /\ IsOk(validate_result) <=>
                (address.validation_hash = None \/ ModuleHashMatches)
        /\ IsErr(validate_result) => validate_result = Err(IncompatibleCodegen)

\* Validation failed on an entry that exists with another hash.
C9_Witness ==
    /\ validate_result = Err(IncompatibleCodegen)
    /\ address.validation_hash # None
    /\ metadata[pallet_used].has_storage
    /\ UsedEntry.exists
    /\ UsedEntry.hash # address.validation_hash[1]

\* C10: lookup_entry_details reports the first of: no pallet of that name, no
\* storage section in it, no entry of that name in the section; otherwise it
\* returns the pallet's handle and the descriptor of the named entry.
C10_LookupPrecedence ==
    lookup_result # Pending =>
        LET p == metadata[address.pallet_name]
            e == p.entries[address.entry_name]
        IN  CASE ~p.exists ->
                    lookup_result = Err(PalletNameNotFound(address.pallet_name))
              [] p.exists /\ ~p.has_storage ->
                    lookup_result = Err(StorageNotFoundInPallet(address.pallet_name))
              [] p.exists /\ p.has_storage /\ ~e.exists ->
                    lookup_result = Err(StorageEntryNotFound(address.entry_name))
              [] OTHER ->
                    /\ IsOk(lookup_result)
                    /\ lookup_result[2].pallet.name = address.pallet_name
                    /\ lookup_result[2].pallet.pallet = p
                    /\ lookup_result[2].entry = e
                    /\ lookup_result[2].entry.name = address.entry_name

\* A lookup met a pallet that exposes no storage section, hence has no entry
\* of the given name either, and reported the missing section.
C10_Witness ==
    /\ lookup_result = Err(StorageNotFoundInPallet(address.pallet_name))
    /\ metadata[address.pallet_name].exists
    /\ ~metadata[address.pallet_name].entries[address.entry_name].exists

(***************************************************************************)
(* Key Builder (utils.rs:10-37) and the codec calls of the chain-head      *)
(* operations.                                                             *)
(***************************************************************************)

\* sp_core_hashing::twox_128: a 16-byte digest of the name.  The model gives
\* each name it uses a digest of its own.
NameIndex(name) ==
    CASE name = "System" -> 1
      [] name = "Events" -> 2
      [] name = "Balances" -> 3
      [] name = "TotalIssuance" -> 4
      [] OTHER -> 0
twox_128(name) == [i \in 1..16 |-> (NameIndex(name) * 16 + i) % 256]

\* The root written with the entry's hash ahead of the pallet's.
write_storage_address_root_bytes_EntryFirst(addr, out) ==
    (out \o twox_128(addr.entry_name)) \o twox_128(addr.pallet_name)

\* write_storage_address_root_bytes
write_storage_address_root_bytes(addr, out) ==
    (out \o twox_128(addr.pallet_name)) \o twox_128(addr.entry_name)

\* storage_address_root_bytes
storage_address_root_bytes(addr) == write_storage_address_root_bytes(addr, <<>>)

\* Error::to_string
error_to_string(e) == IF Len(e) = 1 THEN e[1] ELSE e[1] \o ": " \o e[2]

RpcError(msg) == <<"Rpc", msg>>
CodecError(msg) == <<"Codec", msg>>
WrongNumberOfKeys == <<"WrongNumberOfKeys">>

RECURSIVE Flatten(_)
Flatten(seqs) == IF seqs = <<>> THEN <<>> ELSE Head(seqs) \o Flatten(Tail(seqs))

\* StorageAddress::append_entry_bytes: the map-key parts are encoded against
\* the entry the metadata has for the address.
append_entry_bytes(addr, md, bytes) ==
    LET details == lookup_entry_details(addr.pallet_name, addr.entry_name, md)
    IN IF IsErr(details)
       THEN details
       ELSE IF Len(addr.keys) # details[2].entry.arity
       THEN Err(WrongNumberOfKeys)
       ELSE Ok(bytes \o Flatten(addr.keys))

\* storage_address_bytes
storage_address_bytes(addr, md) ==
    append_entry_bytes(addr, md, write_storage_address_root_bytes(addr, <<>>))

\* Compact<u32>::decode of the first byte.  Inputs here are shorter than 64
\* bytes, so a length in one of the multi-byte modes exceeds what follows.
compact_len(byte) ==
    IF byte % 4 = 0 THEN Ok(byte \div 4) ELSE Err(CodecError("Not enough data to fill buffer"))

\* <Vec<u8> as Decode>::decode, n times: the items read and the bytes left.
RECURSIVE decode_items(_, _)
decode_items(bytes, n) ==
    IF n = 0
    THEN Ok([items |-> <<>>, rest |-> bytes])
    ELSE IF bytes = <<>>
    THEN Err(CodecError("Not enough data to fill buffer"))
    ELSE LET len == compact_len(Head(bytes))
         IN IF IsErr(len)
            THEN len
            ELSE IF Len(bytes) - 1 < len[2]
            THEN Err(CodecError("Not enough data to fill buffer"))
            ELSE LET more == decode_items(SubSeq(bytes, len[2] + 2, Len(bytes)), n - 1)
                 IN IF IsErr(more)
                    THEN more
                    ELSE Ok([items |-> <<SubSeq(bytes, 2, len[2] + 1)>> \o more[2].items,
                             rest |-> more[2].rest])

\* <Vec<Vec<u8>> as Decode>::decode(&mut &bytes[..]); bytes left over are not
\* an error.
decode_extrinsics(bytes) ==
    IF bytes = <<>>
    THEN Err(CodecError("Not enough data to fill buffer"))
    ELSE LET len == compact_len(Head(bytes))
         IN IF IsErr(len)
            THEN len
            ELSE LET all == decode_items(Tail(bytes), len[2])
                 IN IF IsErr(all) THEN all ELSE Ok(all[2].items)

\* <T::Header as Decode>::decode: T is a parameter of the client; the model's
\* header is its non-empty encoding.
decode_header(bytes) ==
    IF bytes = <<>>
    THEN Err(CodecError("Not enough data to fill buffer"))
    ELSE Ok([header |-> bytes])

\* DecodeWithMetadata::decode_storage_with_metadata: the entry's value type is
\* resolved in the metadata and the bytes are decoded against it; every entry
\* of the model declares a one-byte value.
decode_storage_with_metadata(bytes, pallet_name, entry_name, md) ==
    LET details == lookup_entry_details(pallet_name, entry_name, md)
    IN IF IsErr(details)
       THEN details
       ELSE IF bytes = <<>>
       THEN Err(CodecError("Not enough data to fill buffer"))
       ELSE Ok([value |-> Head(bytes)])

(***************************************************************************)
(* ChainHeadBlock (block_types.rs:44-347).                                 *)
(***************************************************************************)
Ops == 1..MaxOps

\* The fields of the handle.
SubscriptionId == "follow-1"
BlockHash == "0xb10c"

\* The metadata of the handle's client.
ClientMetadata ==
    [n \in PalletNames |->
        IF n = "System"
        THEN PalletWithStorage([NoEntries EXCEPT !["Events"] = Entry("Events", 1, 0)])
        ELSE PalletWithStorage(
                [NoEntries EXCEPT !["TotalIssuance"] = Entry("TotalIssuance", 1, 0)])]

\* A request built with the subscription id and the block hash swapped.
Request_SwappedScope(method, subscription_id, hash, key, function, call_parameters) ==
    [method |-> method, subscription_id |-> hash, hash |-> subscription_id,
     key |-> key, function |-> function, call_parameters |-> call_parameters]

\* A request as the peer receives it.
Request(method, subscription_id, hash, key, function, call_parameters) ==
    [method |-> method, subscription_id |-> subscription_id, hash |-> hash,
     key |-> key, function |-> function, call_parameters |-> call_parameters]

SubscribeMethods ==
    {"subscribe_chainhead_body", "subscribe_chainhead_storage", "subscribe_chainhead_call"}

\* An item of a result subscription: Ok(event) or a transport error.
StreamOk(event) == [ok |-> TRUE, event |-> event, error |-> ""]
StreamErr(error) == [ok |-> FALSE, event |-> Done(<<>>), error |-> error]

\* What the peer may answer.
PeerPayloads == {<<"0", "x", "0", "0">>, <<"0", "x">>, <<"0", "x", "g">>}
PeerReasons == {"pruned"}
PeerPlainItems ==
    {StreamOk(Done(s)) : s \in PeerPayloads}
        \cup {StreamOk(Inaccessible(e)) : e \in PeerReasons}
        \cup {StreamOk(Error(e)) : e \in PeerReasons}
        \cup {StreamOk(Disjoint), StreamErr("connection closed")}
PeerOptionalItems ==
    {StreamOk(Done(Some(s))) : s \in PeerPayloads}
        \cup {StreamOk(Done(None))}
        \cup {StreamOk(Inaccessible(e)) : e \in PeerReasons}
        \cup {StreamOk(Error(e)) : e \in PeerReasons}
        \cup {StreamOk(Disjoint), StreamErr("connection closed")}
PeerItems(kind) == IF kind \in {"body", "call"} THEN PeerPlainItems ELSE PeerOptionalItems
\* What follows the first item of a subscription is never read by the calls
\* of this module; the peer picks it from fewer items.
PeerLaterItems(kind) ==
    IF kind \in {"body", "call"}
    THEN {StreamOk(Done(<<"0", "x", "0", "0">>)), StreamOk(Disjoint)}
    ELSE {StreamOk(Done(Some(<<"0", "x", "0", "0">>))), StreamOk(Disjoint)}

\* What the callers may ask for.
RawKeys == {<<1, 2>>}
CallFunctions == {"Core_version"}
CallParameters == {None, Some(<<7>>)}
TypedAddresses ==
    {Address("Balances", "TotalIssuance", h, <<>>) :
        h \in {None} \cup {Some(x) : x \in Hashes}}
        \cup {Address("Balances", "TotalIssuance", None, <<(<<7>>)>>)}

NoAddress == Address("", "", None, <<>>)
IdleOp ==
    [kind |-> "", pc |-> "idle", address |-> NoAddress,
     first |-> <<>>, undrained |-> <<>>, response |-> Pending,
     decodes |-> 0, result |-> Pending]
NoSub == [items |-> <<>>, closed |-> FALSE]

\* impl From<Error> for ChainHeadError
ChainHeadError_from(error) == CHOther(error_to_string(error))

\* fetch_body from `sub.next().await` on: `item` is what next() returned.
fetch_body_next(item) ==
    IF item = None
    THEN Err(CHOther("Failed to fetch the block body"))
    ELSE IF ~item[1].ok
    THEN Err(ChainHeadError_from(RpcError(item[1].error)))
    ELSE LET bytes == VecU8_try_from(item[1].event)
         IN IF IsErr(bytes)
            THEN bytes
            ELSE LET extrinsics == decode_extrinsics(bytes[2])
                 IN IF IsErr(extrinsics)
                    THEN Err(ChainHeadError_from(extrinsics[2]))
                    ELSE extrinsics

\* fetch_storage from `sub.next().await` on.
fetch_storage_next(item) ==
    IF item = None
    THEN Err(CHOther("Failed to fetch the block storage"))
    ELSE IF ~item[1].ok
    THEN Err(ChainHeadError_from(RpcError(item[1].error)))
    ELSE OptionVecU8_try_from(item[1].event)

\* fetch_call returning an empty answer when the subscription yields nothing.
fetch_call_next_EmptyOnNone(item) ==
    IF item = None
    THEN Ok(<<>>)
    ELSE IF ~item[1].ok
    THEN Err(ChainHeadError_from(RpcError(item[1].error)))
    ELSE VecU8_try_from(item[1].event)

\* fetch_call from `sub.next().await` on.
fetch_call_next(item) ==
    IF item = None
    THEN Err(CHOther("Failed to execute the runtime API call"))
    ELSE IF ~item[1].ok
    THEN Err(ChainHeadError_from(RpcError(item[1].error)))
    ELSE VecU8_try_from(item[1].event)

\* fetch_header taking an answer without a header for a stale subscription.
fetch_header_response_NoneAsDisjoint(response) ==
    IF IsErr(response)
    THEN Err(ChainHeadError_from(response[2]))
    ELSE IF response[2] = None
    THEN Err(CHDisjoint)
    ELSE LET bytes == hex_decode(trim_start_matches_0x(response[2][1]))
         IN IF IsErr(bytes)
            THEN Err(ChainHeadError_from(<<"Other", bytes[2]>>))
            ELSE LET header == decode_header(bytes[2])
                 IN IF IsErr(header) THEN Err(ChainHeadError_from(header[2])) ELSE header

\* fetch_header from the answer to chainhead_header on.
fetch_header_response(response) ==
    IF IsErr(response)
    THEN Err(ChainHeadError_from(response[2]))
    ELSE IF response[2] = None
    THEN Err(CHResourceNonExistent)
    ELSE LET bytes == hex_decode(trim_start_matches_0x(response[2][1]))
         IN IF IsErr(bytes)
            THEN Err(ChainHeadError_from(<<"Other", bytes[2]>>))
            ELSE LET header == decode_header(bytes[2])
                 IN IF IsErr(header) THEN Err(ChainHeadError_from(header[2])) ELSE header

\* ChainHeadBlock::storage after storage_raw returned, decoding whatever
\* bytes there are, none included.
storage_after_raw_DecodeAlways(addr, md, storage_bytes) ==
    IF IsErr(storage_bytes)
    THEN [decodes |-> 0, result |-> storage_bytes]
    ELSE LET bytes == IF storage_bytes[2] = None THEN <<>> ELSE storage_bytes[2][1]
             storage == decode_storage_with_metadata(
                            bytes, addr.pallet_name, addr.entry_name, md)
         IN [decodes |-> 1,
             result |-> IF IsErr(storage)
                        THEN Err(ChainHeadError_from(storage[2]))
                        ELSE Ok(Some(storage[2]))]

\* ChainHeadBlock::storage after storage_raw returned: the number of decode
\* calls made and the value returned.
storage_after_raw(addr, md, storage_bytes) ==
    IF IsErr(storage_bytes)
    THEN [decodes |-> 0, result |-> storage_bytes]
    ELSE IF storage_bytes[2] = None
    THEN [decodes |-> 0, result |-> Ok(None)]
    ELSE LET storage == decode_storage_with_metadata(
                            storage_bytes[2][1], addr.pallet_name, addr.entry_name, md)
         IN [decodes |-> 1,
             result |-> IF IsErr(storage)
                        THEN Err(ChainHeadError_from(storage[2]))
                        ELSE Ok(Some(storage[2]))]

\* Events::new
Events_new(hash, event_bytes) == [block_hash |-> hash, event_bytes |-> event_bytes]

\* ChainHeadBlock::events after storage_raw returned.
events_after_raw(storage_bytes) ==
    IF IsErr(storage_bytes)
    THEN storage_bytes
    ELSE IF storage_bytes[2] = None
    THEN Err(CHOther("Failed to fetch System::Events storage"))
    ELSE Ok(Events_new(BlockHash, storage_bytes[2][1]))

\* The call of the given kind from `sub.next().await` on.
AfterNext(kind, addr, md, item) ==
    CASE kind = "body" -> [decodes |-> 0, result |-> fetch_body_next(item)]
      [] kind = "call" -> [decodes |-> 0, result |-> fetch_call_next(item)]
      [] kind = "storage_raw" -> [decodes |-> 0, result |-> fetch_storage_next(item)]
      [] kind = "storage" -> storage_after_raw(addr, md, fetch_storage_next(item))
      [] kind = "events" -> [decodes |-> 0, result |-> events_after_raw(fetch_storage_next(item))]

\* The key of the block's events: twox_128(b"System") ++ twox_128(b"Events").
EventsStorageKey == twox_128("System") \o twox_128("Events")

(***************************************************************************)
(* The calls on one handle, step by step.  Suspension points: the await of *)
(* the subscribe or request call, and the await of sub.next().             *)
(***************************************************************************)
InFlight(k) == op[k].pc \in {"subscribing", "subscribed", "requested"}

\* A call starting on a handle whether or not unpin has consumed it.
Start_OnConsumedHandle(k, kind, pc, addr, request) ==
    /\ op[k].pc = "idle"
    /\ op' = [op EXCEPT ![k] = [IdleOp EXCEPT !.kind = kind, !.pc = pc, !.address = addr]]
    /\ sent' = [sent EXCEPT ![k] = Append(@, request)]
    /\ UNCHANGED <<handle_live, sub, metadata>>

\* The call in slot k starts and sends its one request.  It borrows the
\* handle, so the handle has not been consumed.
Start(k, kind, pc, addr, request) ==
    /\ handle_live
    /\ op[k].pc = "idle"
    /\ op' = [op EXCEPT ![k] = [IdleOp EXCEPT !.kind = kind, !.pc = pc, !.address = addr]]
    /\ sent' = [sent EXCEPT ![k] = Append(@, request)]
    /\ UNCHANGED <<handle_live, sub, metadata>>

\* body -> fetch_body up to `subscribe_chainhead_body(..).await`
CallBody(k) ==
    /\ Start(k, "body", "subscribing", NoAddress,
             Request("subscribe_chainhead_body", SubscriptionId, BlockHash, <<>>, "", <<>>))
    /\ UNCHANGED <<cacheVars, convVars, address, pallet_used, lookup_result, validate_result, pureVars>>

\* storage_raw -> fetch_storage up to `subscribe_chainhead_storage(..).await`
CallStorageRaw(k, key) ==
    /\ Start(k, "storage_raw", "subscribing", NoAddress,
             Request("subscribe_chainhead_storage", SubscriptionId, BlockHash, key, "", <<>>))
    /\ UNCHANGED <<cacheVars, convVars, address, pallet_used, lookup_result, validate_result, pureVars>>

\* call -> fetch_call up to `subscribe_chainhead_call(..).await`
CallCall(k, function, call_parameters) ==
    /\ Start(k, "call", "subscribing", NoAddress,
             Request("subscribe_chainhead_call", SubscriptionId, BlockHash, <<>>, function,
                     IF call_parameters = None THEN <<>> ELSE call_parameters[1]))
    /\ UNCHANGED <<cacheVars, convVars, address, pallet_used, lookup_result, validate_result, pureVars>>

\* events -> storage_raw(&storage_key)
CallBlockEvents(k) ==
    /\ Start(k, "events", "subscribing", NoAddress,
             Request("subscribe_chainhead_storage", SubscriptionId, BlockHash,
                     EventsStorageKey, "", <<>>))
    /\ UNCHANGED <<cacheVars, convVars, address, pallet_used, lookup_result, validate_result, pureVars>>

\* storage: the key is built from the address; a failure returns at once,
\* otherwise storage_raw(&key_bytes) starts.
CallStorage(k, addr) ==
    /\ LET key_bytes == storage_address_bytes(addr, metadata)
       IN IF IsErr(key_bytes)
          THEN /\ handle_live
               /\ op[k].pc = "idle"
               /\ op' = [op EXCEPT ![k] =
                            [IdleOp EXCEPT !.kind = "storage", !.pc = "terminal",
                                           !.address = addr,
                                           !.result = Err(ChainHeadError_from(key_bytes[2]))]]
               /\ UNCHANGED <<handle_live, sub, sent, metadata>>
          ELSE Start(k, "storage", "subscribing", addr,
                     Request("subscribe_chainhead_storage", SubscriptionId, BlockHash,
                             key_bytes[2], "", <<>>))
    /\ UNCHANGED <<cacheVars, convVars, address, pallet_used, lookup_result, validate_result, pureVars>>

\* header -> fetch_header up to `chainhead_header(..).await`
CallHeader(k) ==
    /\ Start(k, "header", "requested", NoAddress,
             Request("chainhead_header", SubscriptionId, BlockHash, <<>>, "", <<>>))
    /\ UNCHANGED <<cacheVars, convVars, address, pallet_used, lookup_result, validate_result, pureVars>>

\* unpin(self) up to `chainhead_unpin(..).await`: the handle is moved into the
\* call, which no borrow of it can outlive.
CallUnpin(k) ==
    /\ handle_live
    /\ op[k].pc = "idle"
    /\ \A j \in Ops : ~InFlight(j)
    /\ handle_live' = FALSE
    /\ op' = [op EXCEPT ![k] = [IdleOp EXCEPT !.kind = "unpin", !.pc = "requested"]]
    /\ sent' = [sent EXCEPT ![k] =
            Append(@, Request("chainhead_unpin", SubscriptionId, BlockHash, <<>>, "", <<>>))]
    /\ UNCHANGED <<sub, metadata>>
    /\ UNCHANGED <<cacheVars, convVars, address, pallet_used, lookup_result, validate_result, pureVars>>

\* The peer opens the result subscription.
SubscriptionOpened(k) ==
    /\ op[k].pc = "subscribing"
    /\ op' = [op EXCEPT ![k] = [@ EXCEPT !.pc = "subscribed"]]
    /\ UNCHANGED <<handle_live, sub, sent, metadata>>
    /\ UNCHANGED <<cacheVars, convVars, address, pallet_used, lookup_result, validate_result, pureVars>>

\* The subscribe call fails: `.await?` returns the error.
SubscriptionRefused(k) ==
    /\ op[k].pc = "subscribing"
    /\ op' = [op EXCEPT ![k] =
            [@ EXCEPT !.pc = "terminal",
                      !.result = Err(ChainHeadError_from(RpcError("request failed")))]]
    /\ UNCHANGED <<handle_live, sub, sent, metadata>>
    /\ UNCHANGED <<cacheVars, convVars, address, pallet_used, lookup_result, validate_result, pureVars>>

\* The peer sends one more item on the subscription.
PeerYield(k, item) ==
    /\ op[k].pc = "subscribed"
    /\ ~sub[k].closed
    /\ Len(sub[k].items) < MaxStream
    /\ sub[k].items # <<>> => item \in PeerLaterItems(op[k].kind)
    /\ sub' = [sub EXCEPT ![k] = [@ EXCEPT !.items = Append(@, item)]]
    /\ UNCHANGED <<handle_live, op, sent, metadata>>
    /\ UNCHANGED <<cacheVars, convVars, address, pallet_used, lookup_result, validate_result, pureVars>>

\* The peer closes the subscription.  Closing it after an item is not told
\* apart by a call that reads one item, and is left out.
PeerClose(k) ==
    /\ op[k].pc = "subscribed"
    /\ ~sub[k].closed
    /\ sub[k].items = <<>>
    /\ sub' = [sub EXCEPT ![k] = [@ EXCEPT !.closed = TRUE]]
    /\ UNCHANGED <<handle_live, op, sent, metadata>>
    /\ UNCHANGED <<cacheVars, convVars, address, pallet_used, lookup_result, validate_result, pureVars>>

\* The call reading on until the subscription has nothing more: the last item
\* the peer sent decides.
TakeFirst_Drain(k) ==
    /\ op[k].pc = "subscribed"
    /\ sub[k].items # <<>> \/ sub[k].closed
    /\ LET item == IF sub[k].items # <<>>
                   THEN Some(sub[k].items[Len(sub[k].items)])
                   ELSE None
           out == AfterNext(op[k].kind, op[k].address, metadata, item)
       IN op' = [op EXCEPT ![k] =
                    [@ EXCEPT !.pc = "terminal", !.first = Some(item),
                              !.decodes = out.decodes, !.result = out.result]]
    /\ sub' = [sub EXCEPT ![k] = NoSub]
    /\ UNCHANGED <<handle_live, sent, metadata>>
    /\ UNCHANGED <<cacheVars, convVars, address, pallet_used, lookup_result, validate_result, pureVars>>

\* The call subscribing once more when the first event is Inaccessible.
TakeFirst_RetryInaccessible(k) ==
    /\ op[k].pc = "subscribed"
    /\ sub[k].items # <<>> \/ sub[k].closed
    /\ LET item == IF sub[k].items # <<>> THEN Some(Head(sub[k].items)) ELSE None
           out == AfterNext(op[k].kind, op[k].address, metadata, item)
           again == /\ item # None
                    /\ item[1].ok
                    /\ item[1].event.shape = "Inaccessible"
                    /\ Len(sent[k]) < 2
       IN IF again
          THEN /\ op' = [op EXCEPT ![k] = [@ EXCEPT !.pc = "subscribing"]]
               /\ sent' = [sent EXCEPT ![k] = Append(@, sent[k][1])]
          ELSE /\ op' = [op EXCEPT ![k] =
                        [@ EXCEPT !.pc = "terminal", !.first = Some(item),
                                  !.undrained = IF sub[k].items # <<>>
                                                THEN Tail(sub[k].items) ELSE <<>>,
                                  !.decodes = out.decodes, !.result = out.result]]
               /\ UNCHANGED sent
    /\ sub' = [sub EXCEPT ![k] = NoSub]
    /\ UNCHANGED <<handle_live, metadata>>
    /\ UNCHANGED <<cacheVars, convVars, address, pallet_used, lookup_result, validate_result, pureVars>>

\* `sub.next().await` completes with the first item, or with None on a closed
\* subscription; the call runs to its return and `sub` is dropped with the
\* items it never read.
TakeFirst(k) ==
    /\ op[k].pc = "subscribed"
    /\ sub[k].items # <<>> \/ sub[k].closed
    /\ LET item == IF sub[k].items # <<>> THEN Some(Head(sub[k].items)) ELSE None
           out == AfterNext(op[k].kind, op[k].address, metadata, item)
       IN op' = [op EXCEPT ![k] =
                    [@ EXCEPT !.pc = "terminal", !.first = Some(item),
                              !.undrained = IF sub[k].items # <<>>
                                            THEN Tail(sub[k].items) ELSE <<>>,
                              !.decodes = out.decodes, !.result = out.result]]
    /\ sub' = [sub EXCEPT ![k] = NoSub]
    /\ UNCHANGED <<handle_live, sent, metadata>>
    /\ UNCHANGED <<cacheVars, convVars, address, pallet_used, lookup_result, validate_result, pureVars>>

HeaderResponses ==
    {Ok(Some(s)) : s \in PeerPayloads} \cup {Ok(None), Err(RpcError("request failed"))}

\* The peer answers chainhead_header.
HeaderAnswered(k, response) ==
    /\ op[k].pc = "requested"
    /\ op[k].kind = "header"
    /\ op' = [op EXCEPT ![k] =
            [@ EXCEPT !.pc = "terminal", !.response = response,
                      !.result = fetch_header_response(response)]]
    /\ UNCHANGED <<handle_live, sub, sent, metadata>>
    /\ UNCHANGED <<cacheVars, convVars, address, pallet_used, lookup_result, validate_result, pureVars>>

\* The peer answers chainhead_unpin: `.await?; Ok(())`.
UnpinAnswered(k, response) ==
    /\ op[k].pc = "requested"
    /\ op[k].kind = "unpin"
    /\ op' = [op EXCEPT ![k] =
            [@ EXCEPT !.pc = "terminal", !.response = response, !.result = response]]
    /\ UNCHANGED <<handle_live, sub, sent, metadata>>
    /\ UNCHANGED <<cacheVars, convVars, address, pallet_used, lookup_result, validate_result, pureVars>>

\* Dropping the future of a call releasing the block as well.
AbandonOp_Unpins(k) ==
    /\ InFlight(k)
    /\ op' = [op EXCEPT ![k] = [@ EXCEPT !.pc = "abandoned"]]
    /\ sub' = [sub EXCEPT ![k] = NoSub]
    /\ sent' = [sent EXCEPT ![k] =
            Append(@, Request("chainhead_unpin", SubscriptionId, BlockHash, <<>>, "", <<>>))]
    /\ UNCHANGED <<handle_live, metadata>>
    /\ UNCHANGED <<cacheVars, convVars, address, pallet_used, lookup_result, validate_result, pureVars>>

\* The caller drops the future of a call at one of its suspension points.
AbandonOp(k) ==
    /\ InFlight(k)
    /\ op' = [op EXCEPT ![k] = [@ EXCEPT !.pc = "abandoned"]]
    /\ sub' = [sub EXCEPT ![k] = NoSub]
    /\ UNCHANGED <<handle_live, sent, metadata>>
    /\ UNCHANGED <<cacheVars, convVars, address, pallet_used, lookup_result, validate_result, pureVars>>

\* ChainHeadBlock::new
InitHead ==
    /\ handle_live = TRUE
    /\ op = [k \in Ops |-> IdleOp]
    /\ sub = [k \in Ops |-> NoSub]
    /\ sent = [k \in Ops |-> <<>>]
    /\ metadata = ClientMetadata
    /\ address = <<>>
    /\ pallet_used = ""
    /\ lookup_result = <<>>
    /\ validate_result = <<>>
    /\ IdleCache
    /\ IdleConvert
    /\ IdleKeys
    /\ IdleCorrelate
    /\ IdleBody

NextHead ==
    \/ \E k \in Ops : CallBody(k)
    \/ \E k \in Ops, key \in RawKeys : CallStorageRaw(k, key)
    \/ \E k \in Ops, f \in CallFunctions, p \in CallParameters : CallCall(k, f, p)
    \/ \E k \in Ops : CallBlockEvents(k)
    \/ \E k \in Ops, addr \in TypedAddresses : CallStorage(k, addr)
    \/ \E k \in Ops : CallHeader(k)
    \/ \E k \in Ops : CallUnpin(k)
    \/ \E k \in Ops : SubscriptionOpened(k)
    \/ \E k \in Ops : SubscriptionRefused(k)
    \/ \E k \in Ops : \E item \in PeerItems(op[k].kind) : PeerYield(k, item)
    \/ \E k \in Ops : PeerClose(k)
    \/ \E k \in Ops : TakeFirst(k)
    \/ \E k \in Ops, response \in HeaderResponses : HeaderAnswered(k, response)
    \/ \E k \in Ops, response \in {Ok(Unit), Err(RpcError("request failed"))} :
            UnpinAnswered(k, response)
    \/ \E k \in Ops : AbandonOp(k)

SpecHead == InitHead /\ [][NextHead]_vars

(***************************************************************************)
(* Claims about the chain-head block handle.                               *)
(***************************************************************************)
IsDisjoint(res) == IsErr(res) /\ res[2][1] = "Disjoint"
ErrKind(res) == res[2][1]

\* The call in slot k read an event from its result subscription.
TookEvent(k) ==
    /\ Len(op[k].first) = 1
    /\ Len(op[k].first[1]) = 1
    /\ op[k].first[1][1].ok
FirstEvent(k) == op[k].first[1][1].event
\* sub.next() of the call in slot k returned None.
TookNothing(k) == Len(op[k].first) = 1 /\ op[k].first[1] = None

\* C3 (as claimed): once a call on the handle has ended with Disjoint, every
\* outstanding or later body, storage or call operation that completes on an
\* answer of the peer fails with Disjoint, whatever that answer is.
C3_DisjointInvalidatesHandle ==
    [][(\E j \in Ops : op[j].pc = "terminal" /\ IsDisjoint(op[j].result)) =>
            \A k \in Ops :
                (/\ op[k].pc # "terminal"
                 /\ op'[k].pc = "terminal"
                 /\ op'[k].kind \in {"body", "storage_raw", "storage", "call"}
                 /\ Len(op'[k].first) = 1
                 /\ Len(op'[k].first[1]) = 1
                 /\ op'[k].first[1][1].ok)
                    => IsDisjoint(op'[k].result)]_vars

\* C3 (amended): a call ends with Disjoint exactly when the first item its own
\* result subscription yielded is the Disjoint event; earlier outcomes on the
\* handle play no part.
C3_DisjointIffOwnEvent ==
    \A k \in Ops :
        op[k].pc = "terminal" =>
            (IsDisjoint(op[k].result) <=>
                (TookEvent(k) /\ FirstEvent(k).shape = "Disjoint"))

\* One call on the handle ended with Disjoint and another one with a value
\* the peer answered.
C3_Witness ==
    \E j, k \in Ops :
        /\ j # k
        /\ op[j].pc = "terminal" /\ IsDisjoint(op[j].result)
        /\ op[k].pc = "terminal" /\ TookEvent(k) /\ IsOk(op[k].result)

\* C4 (as claimed): each of header, body, storage and call, once ended, has
\* opened one result subscription scoped to the handle.
C4_AllFourSubscribe ==
    \A k \in Ops :
        (op[k].pc = "terminal" /\ op[k].kind \in {"header", "body", "storage_raw", "call"}) =>
            /\ Len(sent[k]) = 1
            /\ sent[k][1].method \in SubscribeMethods
            /\ sent[k][1].subscription_id = SubscriptionId
            /\ sent[k][1].hash = BlockHash

SubscribeMethodOf(kind) ==
    CASE kind = "body" -> "subscribe_chainhead_body"
      [] kind = "call" -> "subscribe_chainhead_call"
      [] OTHER -> "subscribe_chainhead_storage"

\* C4 (amended): body, storage and call each open one result subscription
\* scoped to the handle's subscription id and block hash, read an event from
\* it only once subscribed, and end with the conversion of that event: a
\* non-Done event gives the error of its shape, a Done event a value or Other.
\* The typed storage opens it only if the key could be built.  header opens
\* no subscription: it sends one chainhead_header request and ends with a
\* value, ResourceNonExistent or Other.
C4_SubscribeThenTerminal ==
    \A k \in Ops :
        /\ (op[k].kind \in {"body", "storage_raw", "call"} /\ op[k].pc # "idle") =>
                /\ Len(sent[k]) = 1
                /\ sent[k][1].method = SubscribeMethodOf(op[k].kind)
        /\ (op[k].kind = "storage" /\ op[k].pc # "idle") =>
                \/ Len(sent[k]) = 1 /\ sent[k][1].method = "subscribe_chainhead_storage"
                \/ /\ sent[k] = <<>>
                   /\ op[k].pc = "terminal"
                   /\ IsErr(op[k].result) /\ ErrKind(op[k].result) = "Other"
        /\ \A i \in 1..Len(sent[k]) :
                sent[k][i].subscription_id = SubscriptionId /\ sent[k][i].hash = BlockHash
        /\ op[k].first # <<>> =>
                op[k].pc = "terminal" /\ op[k].kind \notin {"header", "unpin"}
        /\ (op[k].kind \in {"body", "storage_raw", "storage", "call"} /\ TookEvent(k)) =>
                IF FirstEvent(k).shape = "Done"
                THEN IsOk(op[k].result) \/ ErrKind(op[k].result) = "Other"
                ELSE IsErr(op[k].result) /\ ErrKind(op[k].result) = FirstEvent(k).shape
        /\ (op[k].kind = "header" /\ op[k].pc # "idle") =>
                /\ Len(sent[k]) = 1
                /\ sent[k][1].method = "chainhead_header"
                /\ sub[k] = NoSub
                /\ op[k].pc = "terminal" =>
                        \/ IsOk(op[k].result)
                        \/ ErrKind(op[k].result) \in {"ResourceNonExistent", "Other"}

\* A header call has ended on the answer to its request while a body call
\* has ended on an event of its subscription.
C4_Witness ==
    \E j, k \in Ops :
        /\ op[j].kind = "header" /\ op[j].pc = "terminal"
        /\ op[j].result = Err(CHResourceNonExistent)
        /\ op[k].kind = "body" /\ op[k].pc = "terminal" /\ TookEvent(k)
        /\ FirstEvent(k).shape = "Inaccessible"

KindWord(kind) ==
    CASE kind = "body" -> "body"
      [] kind = "call" -> "call"
      [] OTHER -> "storage"

\* C6 (as claimed): a body, storage or call operation whose subscription
\* closes without an event fails with the message "Failed to fetch the block
\* <kind>".
C6_IncompleteNamesKind ==
    \A k \in Ops :
        (op[k].kind \in {"body", "storage_raw", "call"} /\ TookNothing(k)) =>
            op[k].result = Err(CHOther("Failed to fetch the block " \o KindWord(op[k].kind)))

IncompleteMessage(kind) ==
    CASE kind = "body" -> "Failed to fetch the block body"
      [] kind = "call" -> "Failed to execute the runtime API call"
      [] OTHER -> "Failed to fetch the block storage"

\* C6 (amended): an operation whose result subscription closes without an
\* event can return, and fails with ChainHeadError::Other carrying "Failed to
\* fetch the block body" (body), "Failed to fetch the block storage" (storage)
\* or "Failed to execute the runtime API call" (call), never with a value;
\* header has no subscription that could close.
C6_IncompleteIsOther ==
    \A k \in Ops :
        /\ (op[k].pc = "subscribed" /\ sub[k].closed /\ sub[k].items = <<>>) =>
                ENABLED TakeFirst(k)
        /\ TookNothing(k) =>
                /\ op[k].kind \notin {"header", "unpin"}
                /\ op[k].pc = "terminal"
                /\ op[k].result = Err(CHOther(IncompleteMessage(op[k].kind)))

\* A call operation has ended on a subscription that closed without an event.
C6_Witness ==
    \E k \in Ops : op[k].kind = "call" /\ op[k].pc = "terminal" /\ TookNothing(k)

\* The address expects a hash other than the one the metadata has for its entry.
HashMismatch(addr) ==
    /\ addr.validation_hash # None
    /\ metadata[addr.pallet_name].entries[addr.entry_name].exists
    /\ metadata[addr.pallet_name].entries[addr.entry_name].hash # addr.validation_hash[1]

\* C7 (as claimed): a typed storage call whose address expects another hash
\* than the metadata's sends no storage request, decodes nothing and fails
\* with IncompatibleCodegen.
C7_ValidatesBeforeFetch ==
    \A k \in Ops :
        (op[k].kind = "storage" /\ op[k].pc # "idle" /\ HashMismatch(op[k].address)) =>
            /\ sent[k] = <<>>
            /\ op[k].decodes = 0
            /\ op[k].pc = "terminal"
            /\ op[k].result = Err(ChainHeadError_from(IncompatibleCodegen))

\* C8: the typed storage call decodes only when the raw fetch ended with Done
\* carrying bytes; a Disjoint, Inaccessible or Error event comes back as the
\* error of that kind and Done without a value as Ok(None), both undecoded.
C8_DecodeOnlyOnBytes ==
    \A k \in Ops :
        (op[k].kind = "storage" /\ op[k].pc = "terminal") =>
            /\ op[k].decodes \in {0, 1}
            /\ op[k].decodes = 1 <=>
                    /\ TookEvent(k)
                    /\ FirstEvent(k).shape = "Done"
                    /\ FirstEvent(k).result # None
                    /\ IsOk(hex_decode(trim_start_matches_0x(FirstEvent(k).result[1])))
            /\ TookEvent(k) =>
                    /\ FirstEvent(k).shape = "Disjoint" => op[k].result = Err(CHDisjoint)
                    /\ FirstEvent(k).shape = "Inaccessible" =>
                            op[k].result = Err(CHInaccessible(FirstEvent(k).error))
                    /\ FirstEvent(k).shape = "Error" =>
                            op[k].result = Err(CHError(FirstEvent(k).error))
                    /\ (FirstEvent(k).shape = "Done" /\ FirstEvent(k).result = None) =>
                            op[k].result = Ok(None)

\* A typed storage call has ended on a Disjoint event, undecoded.
C8_Witness ==
    \E k \in Ops :
        /\ op[k].kind = "storage" /\ op[k].pc = "terminal"
        /\ TookEvent(k) /\ FirstEvent(k).shape = "Disjoint"
        /\ op[k].result = Err(CHDisjoint) /\ op[k].decodes = 0

(***************************************************************************)
(* The key builder applied to addresses (utils.rs:12-37).                  *)
(***************************************************************************)
KeyAddresses ==
    {Address(p, e, None, <<>>) : p \in PalletNames, e \in EntryNames}
UnusedAddress == Address("", "", None, <<>>)
CallerBuffers == {<<>>, <<9, 8>>}

InitKeys ==
    /\ buffer0 \in CallerBuffers
    /\ buffer = buffer0
    /\ written = <<>>
    /\ key_address = UnusedAddress
    /\ root_result = <<>>
    /\ IdleCache
    /\ IdleConvert
    /\ IdleUtils
    /\ IdleHead
    /\ IdleCorrelate
    /\ IdleBody

\* write_storage_address_root_bytes(addr, &mut out)
WriteRoot(addr) ==
    /\ Len(written) < MaxWrites
    /\ buffer' = write_storage_address_root_bytes(addr, buffer)
    /\ written' = Append(written, addr)
    /\ UNCHANGED <<buffer0, key_address, root_result>>
    /\ UNCHANGED <<cacheVars, convVars, utilVars, headVars, corrVars, bodyVars>>

\* storage_address_root_bytes(addr)
RootBytes(addr) ==
    /\ key_address' = addr
    /\ root_result' = storage_address_root_bytes(addr)
    /\ UNCHANGED <<buffer0, buffer, written>>
    /\ UNCHANGED <<cacheVars, convVars, utilVars, headVars, corrVars, bodyVars>>

NextKeys ==
    \/ \E addr \in KeyAddresses : WriteRoot(addr)
    \/ \E addr \in KeyAddresses : RootBytes(addr)

SpecKeys == InitKeys /\ [][NextKeys]_vars

\* The 16 bytes of `bytes` from offset `at` on.
Segment(bytes, at) == SubSeq(bytes, at + 1, at + 16)

\* C11: storage_address_root_bytes returns the 16-byte hash of the pallet name
\* followed by the 16-byte hash of the entry name, 32 bytes in all, whatever
\* calls preceded it; every write_storage_address_root_bytes call has put
\* those 32 bytes at the end of the buffer and left what was there in place.
C11_RootBytes ==
    /\ key_address # UnusedAddress =>
            /\ Len(root_result) = 32
            /\ Segment(root_result, 0) = twox_128(key_address.pallet_name)
            /\ Segment(root_result, 16) = twox_128(key_address.entry_name)
    /\ Len(buffer) = Len(buffer0) + 32 * Len(written)
    /\ SubSeq(buffer, 1, Len(buffer0)) = buffer0
    /\ \A i \in 1..Len(written) :
            LET at == Len(buffer0) + 32 * (i - 1)
            IN /\ Segment(buffer, at) = twox_128(written[i].pallet_name)
               /\ Segment(buffer, at + 16) = twox_128(written[i].entry_name)

\* The root of Balances.TotalIssuance was returned after the root of another
\* address, and two roots were appended to a buffer that was not empty.
C11_Witness ==
    /\ key_address = Address("Balances", "TotalIssuance", None, <<>>)
    /\ root_result = twox_128("Balances") \o twox_128("TotalIssuance")
    /\ buffer0 # <<>>
    /\ Len(written) = 2
    /\ written[1] # written[2]

(***************************************************************************)
(* ExtrinsicEvents::iter (block_types.rs:549-555) over one block's events. *)
(***************************************************************************)
\* The filter with the phase's index compared and its variant ignored.
ExtrinsicEvents_iter_IndexOnly(self) ==
    SelectSeq(self.events, LAMBDA ev : IF ev.err THEN TRUE ELSE ev.idx = self.idx)

\* The filter with unwrap_or(false): errors are dropped.
ExtrinsicEvents_iter_DropErrors(self) ==
    SelectSeq(self.events,
              LAMBDA ev : IF ev.err
                          THEN FALSE
                          ELSE ev.phase = "ApplyExtrinsic" /\ ev.idx = self.idx)

\* ExtrinsicEvents::iter, collected: the items of Events::iter() that pass
\* the filter, an error item passing by unwrap_or(true).
ExtrinsicEvents_iter(self) ==
    SelectSeq(self.events,
              LAMBDA ev : IF ev.err
                          THEN TRUE
                          ELSE ev.phase = "ApplyExtrinsic" /\ ev.idx = self.idx)

\* The kinds of item Events::iter() may yield; an item is named after its
\* position in the block's list.
ItemKinds == {"Initialization", "Apply0", "Apply1", "Finalization", "Error"}
EventName(pos) == "e" \o ToString(pos)
ItemAt(kind, pos) ==
    CASE kind = "Initialization" -> EventOk("Initialization", 0, EventName(pos))
      [] kind = "Apply0" -> EventOk("ApplyExtrinsic", 0, EventName(pos))
      [] kind = "Apply1" -> EventOk("ApplyExtrinsic", 1, EventName(pos))
      [] kind = "Finalization" -> EventOk("Finalization", 0, EventName(pos))
      [] kind = "Error" -> EventErr(EventName(pos))
BlockEventLists ==
    UNION {{[p \in 1..n |-> ItemAt(kinds[p], p)] : kinds \in [1..n -> ItemKinds]} :
                n \in 0..MaxEvents}

\* The extrinsic indices asked for; the last one has no event in any list.
ExtrinsicIndices == 0..MaxExtrinsics

InitCorrelate ==
    /\ ev_events \in BlockEventLists
    /\ ev_iter = [i \in ExtrinsicIndices |-> None]
    /\ IdleCache
    /\ IdleConvert
    /\ IdleUtils
    /\ IdleHead
    /\ IdleKeys
    /\ IdleBody

\* ExtrinsicEvents::new(ext_hash, idx, events).iter().collect()
IterateExtrinsic(i) ==
    /\ ev_iter[i] = None
    /\ ev_iter' = [ev_iter EXCEPT ![i] =
            Some(ExtrinsicEvents_iter(ExtrinsicEvents_new(hash_of(<<i>>), i, ev_events)))]
    /\ UNCHANGED <<ev_events, cacheVars, convVars, utilVars, headVars, keyVars, bodyVars>>

NextCorrelate == \E i \in ExtrinsicIndices : IterateExtrinsic(i)

SpecCorrelate == InitCorrelate /\ [][NextCorrelate]_vars

Iterated == {i \in ExtrinsicIndices : ev_iter[i] # None}
Yielded(i) == {ev_iter[i][1][a] : a \in 1..Len(ev_iter[i][1])}
\* The position in the block's list of the item named `name`.
PositionOf(name) == CHOOSE p \in 1..Len(ev_events) : ev_events[p].name = name

\* C12: a decoded event is yielded for extrinsic N iff its phase is
\* ApplyExtrinsic(N); so no decoded event is yielded for two extrinsics,
\* events of other phases for none, and decoded events come in block order.
C12_CorrelatedByPhase ==
    /\ \A i \in Iterated : \A p \in 1..Len(ev_events) :
            ~ev_events[p].err =>
                (ev_events[p] \in Yielded(i) <=>
                    (ev_events[p].phase = "ApplyExtrinsic" /\ ev_events[p].idx = i))
    /\ \A i, j \in Iterated :
            i # j => \A ev \in Yielded(i) \cap Yielded(j) : ev.err
    /\ \A i \in Iterated : \A a, b \in 1..Len(ev_iter[i][1]) :
            LET x == ev_iter[i][1][a]
                y == ev_iter[i][1][b]
            IN /\ x \in {ev_events[p] : p \in 1..Len(ev_events)}
               /\ (a < b /\ ~x.err /\ ~y.err) => PositionOf(x.name) < PositionOf(y.name)

\* Extrinsics 0 and 1 were both iterated over a list holding an event of
\* each and an event of another phase.
C12_Witness ==
    /\ {0, 1} \subseteq Iterated
    /\ \E p, q, s \in 1..Len(ev_events) :
            /\ ev_events[p] \in Yielded(0) /\ ~ev_events[p].err
            /\ ev_events[q] \in Yielded(1) /\ ~ev_events[q].err
            /\ ev_events[s].phase = "Initialization"

\* C13: every error item of the block's list is yielded for every extrinsic
\* index, in its place among the items yielded.
C13_ErrorsKept ==
    \A i \in Iterated :
        /\ \A p \in 1..Len(ev_events) : ev_events[p].err => ev_events[p] \in Yielded(i)
        /\ \A a, b \in 1..Len(ev_iter[i][1]) :
                LET x == ev_iter[i][1][a]
                    y == ev_iter[i][1][b]
                IN (x.err \/ y.err) =>
                        (a < b <=> PositionOf(x.name) < PositionOf(y.name))

\* An error item standing between two events of extrinsic 1 was yielded for
\* every extrinsic index.
C13_Witness ==
    /\ Iterated = ExtrinsicIndices
    /\ Len(ev_events) = 3
    /\ ev_events[2].err
    /\ \A i \in ExtrinsicIndices : ev_events[2] \in Yielded(i)
    /\ ev_events[1] \in Yielded(1) /\ ev_events[3] \in Yielded(1)

(***************************************************************************)
(* BlockBody::extrinsics (block_types.rs:442-458): a lazy iterator over    *)
(* details.block.extrinsics, enumerate() then map().                       *)
(***************************************************************************)
\* The Extrinsic view of the closure; client, block_hash and cached_events
\* are the same for every view of one body and are left out.
Extrinsic(index, bytes) == [index |-> index, bytes |-> bytes]

\* next() with the views counted from one.
extrinsics_next_OneBased(extrinsics, pos) ==
    IF pos < Len(extrinsics)
    THEN Some(Extrinsic(pos + 1, extrinsics[pos + 1]))
    ELSE None

\* next() of the iterator standing at `pos`: the enumerate() pair (idx, e)
\* mapped to Extrinsic { index: idx as u32, bytes: &e.0, .. }, or None.  The
\* cast keeps every position below 2^32, as all positions here are.
extrinsics_next(extrinsics, pos) ==
    IF pos < Len(extrinsics)
    THEN Some(Extrinsic(pos, extrinsics[pos + 1]))
    ELSE None

ByteSpans == {<<>>, <<1>>, <<2, 3>>}
Bodies == UNION {[1..n -> ByteSpans] : n \in 0..MaxExtrinsics}

\* BlockBody::new
InitBody ==
    /\ body \in Bodies
    /\ it_pos = -1
    /\ it_views = <<>>
    /\ it_done = <<>>
    /\ IdleCache
    /\ IdleConvert
    /\ IdleUtils
    /\ IdleHead
    /\ IdleKeys
    /\ IdleCorrelate

\* extrinsics() is called: a new iterator stands before the first span; an
\* iterator still live is dropped.
ExtrinsicsCall ==
    /\ Len(it_done) < MaxPasses
    /\ it_pos' = 0
    /\ it_views' = <<>>
    /\ UNCHANGED <<body, it_done>>
    /\ UNCHANGED <<cacheVars, convVars, utilVars, headVars, keyVars, corrVars>>

\* next() on the live iterator: one more view, or None at the end.
ExtrinsicsNext ==
    /\ it_pos >= 0
    /\ LET item == extrinsics_next(body, it_pos)
       IN IF item = None
          THEN /\ it_done' = Append(it_done, it_views)
               /\ it_pos' = -1
               /\ UNCHANGED it_views
          ELSE /\ it_views' = Append(it_views, item[1])
               /\ it_pos' = it_pos + 1
               /\ UNCHANGED it_done
    /\ UNCHANGED body
    /\ UNCHANGED <<cacheVars, convVars, utilVars, headVars, keyVars, corrVars>>

NextBody == ExtrinsicsCall \/ ExtrinsicsNext

SpecBody == InitBody /\ [][NextBody]_vars

\* The views are those of the first Len(views) spans, indexed from 0.
ViewsOfPrefix(views) ==
    /\ Len(views) <= Len(body)
    /\ \A i \in 1..Len(views) : views[i].index = i - 1 /\ views[i].bytes = body[i]

\* C14: extrinsics() yields one view per stored span in stored order, the
\* i-th with index i counted from 0 and the i-th span's bytes; every call
\* starts again at index 0 and, run to its end, yields the same sequence.
C14_OneViewPerSpan ==
    /\ ViewsOfPrefix(it_views)
    /\ it_pos >= 0 => Len(it_views) = it_pos
    /\ \A q \in 1..Len(it_done) :
            ViewsOfPrefix(it_done[q]) /\ Len(it_done[q]) = Len(body)
    /\ \A q, s \in 1..Len(it_done) : it_done[q] = it_done[s]

\* Two calls over a body of two different spans were each run to the end.
C14_Witness ==
    /\ Len(body) = 2
    /\ body[1] # body[2]
    /\ Len(it_done) = 2
    /\ Len(it_done[2]) = 2

(***************************************************************************)
(* More claims about the chain-head block handle.                          *)
(***************************************************************************)
UnpinSent(k) == \E i \in 1..Len(sent[k]) : sent[k][i].method = "chainhead_unpin"

\* C15: an unpin request reaches the peer only from a call of unpin; no other
\* operation sends one, whether it is in flight, has ended or was abandoned,
\* and only unpin consumes the handle.
C15_UnpinOnlyExplicit ==
    /\ \A k \in Ops : UnpinSent(k) => op[k].kind = "unpin"
    /\ ~handle_live <=> \E k \in Ops : op[k].kind = "unpin"

\* One operation was abandoned in flight and another one failed, and no
\* unpin request was sent.
C15_Witness ==
    /\ handle_live
    /\ \E j, k \in Ops :
            /\ op[j].pc = "abandoned"
            /\ op[k].pc = "terminal" /\ IsErr(op[k].result)
    /\ \A k \in Ops : ~UnpinSent(k)

\* C16: every call sends at most one request or subscription to the peer; a
\* call whose first event is Inaccessible has ended with
\* ChainHeadError::Inaccessible on the one it sent.
C16_NoRetry ==
    \A k \in Ops :
        /\ Len(sent[k]) <= 1
        /\ (TookEvent(k) /\ FirstEvent(k).shape = "Inaccessible") =>
                /\ op[k].pc = "terminal"
                /\ op[k].result = Err(CHInaccessible(FirstEvent(k).error))
                /\ Len(sent[k]) = 1

\* A storage call and a call operation have both ended with Inaccessible.
C16_Witness ==
    \E j, k \in Ops :
        /\ op[j].kind = "storage_raw" /\ op[k].kind = "call"
        /\ \A s \in {j, k} :
                /\ op[s].pc = "terminal"
                /\ TookEvent(s)
                /\ FirstEvent(s).shape = "Inaccessible"

\* C20: a call that ends on an item of its subscription has read the first
\* item only: its result is what that item converts to, and every item the
\* peer sent after it is left unread.
C20_OnlyFirstConsulted ==
    [][\A k \in Ops :
            (op[k].pc = "subscribed" /\ op'[k].pc = "terminal" /\ sub[k].items # <<>>) =>
                /\ op'[k].first = Some(Some(Head(sub[k].items)))
                /\ op'[k].undrained = Tail(sub[k].items)
                /\ op'[k].result =
                        AfterNext(op[k].kind, op[k].address, metadata,
                                  Some(Head(sub[k].items))).result]_vars

\* A body call has ended with the bytes of its first event although the peer
\* had sent Disjoint after it.
C20_Witness ==
    \E k \in Ops :
        /\ op[k].kind = "body" /\ op[k].pc = "terminal"
        /\ TookEvent(k) /\ FirstEvent(k).shape = "Done"
        /\ IsOk(op[k].result)
        /\ op[k].undrained = <<StreamOk(Disjoint)>>

(***************************************************************************)
(* More claims about the event cache.                                      *)
(***************************************************************************)
Fetching == {r \in Readers : reader[r].pc = "fetching"}

\* The step ends the get_events call of reader r without a value: the call
\* is abandoned while it waits for the lock or for the fetch, or its fetch
\* returns an error.
EndsWithoutValue(r) ==
    /\ reader[r].pc \in {"waiting", "fetching"}
    /\ \/ reader'[r].pc = "cancelled"
       \/ reader'[r].pc = "done" /\ IsErr(reader'[r].events)

\* C17: a get_events call that is abandoned at a suspension point, or whose
\* fetch fails, leaves the cell as it was and the lock free if it held it;
\* the lock is never held but by a call waiting for its fetch.
C17_CancelKeepsCache ==
    [][/\ \A r \in Readers :
            EndsWithoutValue(r) =>
                /\ cached_events' = cached_events
                /\ mutex' # r
                /\ mutex = r => mutex' = 0
       /\ mutex' # 0 => reader'[mutex'].pc = "fetching"]_vars

\* One call was abandoned during its fetch and the other one acquired the
\* lock after it.
C17_Witness ==
    \E r, s \in Readers :
        /\ reader[r].pc = "cancelled"
        /\ fetch_count = 2
        /\ reader[s].pc = "fetching"
        /\ mutex = s

\* C18: among the get_events calls sharing the cell at most one is between
\* issuing its fetch and receiving the result, and it holds the lock.
C18_OneFetchInFlight ==
    /\ Cardinality(Fetching) <= 1
    /\ \A r \in Fetching : mutex = r

\* One call waits for its fetch while another one waits for the lock.
C18_Witness ==
    \E r, s \in Readers :
        /\ reader[r].pc = "fetching"
        /\ reader[s].pc = "waiting"

\* The cell of a block is empty in every reachable state.
CellNeverPopulated == cached_events = None

\* C21: once unpin has been called on the handle nothing more is sent for
\* it, whatever the peer answers to the unpin request, and no borrowing call
\* is in flight beside it: unpin is the last request.
C21_UnpinIsLast ==
    [][/\ (\E k \in Ops : UnpinSent(k)) => sent' = sent
       /\ (\E k \in Ops : UnpinSent(k)) =>
                \A j \in Ops : op[j].kind # "unpin" => (~InFlight(j) /\ op'[j] = op[j])]_vars

\* The unpin request has failed while a call that could still be made on a
\* live handle is left unmade.
C21_Witness ==
    \E i, j \in Ops :
        /\ op[i].kind = "unpin" /\ op[i].pc = "terminal" /\ IsErr(op[i].result)
        /\ op[j].pc = "idle"

\* The peer answered the request of the call in slot k with no value.
AnsweredNone(k) == IsOk(op[k].response) /\ op[k].response[2] = None

\* C22: header sends one chainhead_header request and fails with
\* ResourceNonExistent when the peer answers with no value; no other
\* operation ends with ResourceNonExistent, and header never ends with
\* Inaccessible or Disjoint.
C22_HeaderNonExistent ==
    \A k \in Ops :
        /\ (op[k].kind = "header" /\ op[k].pc # "idle") =>
                /\ Len(sent[k]) = 1
                /\ sent[k][1].method = "chainhead_header"
        /\ (op[k].kind = "header" /\ op[k].pc = "terminal" /\ AnsweredNone(k)) =>
                op[k].result = Err(CHResourceNonExistent)
        /\ (op[k].pc = "terminal" /\ op[k].result = Err(CHResourceNonExistent)) =>
                op[k].kind = "header" /\ AnsweredNone(k)
        /\ (op[k].kind = "header" /\ op[k].pc = "terminal" /\ IsErr(op[k].result)) =>
                ErrKind(op[k].result) \notin {"Inaccessible", "Disjoint"}

\* A header call was answered with no value beside a storage call that
\* ended on a Done event without a value.
C22_Witness ==
    \E j, k \in Ops :
        /\ op[j].kind = "header" /\ op[j].pc = "terminal" /\ AnsweredNone(j)
        /\ op[k].kind = "storage_raw" /\ op[k].pc = "terminal"
        /\ op[k].result = Ok(None)

(***************************************************************************)
(* The event cache under fair scheduling: a fetch that was issued will     *)
(* complete, with a value or an error, and the AsyncMutex grants the lock  *)
(* to a call that keeps waiting for it.  Dropping a call stays the         *)
(* caller's choice.                                                        *)
(***************************************************************************)
SpecCacheFair ==
    /\ InitCache
    /\ [][NextCache]_vars
    /\ \A r \in Readers : WF_vars(FetchOk(r) \/ FetchErr(r))
    /\ \A r \in Readers : SF_vars(AcquireLock(r))

InProgress == {r \in Readers : reader[r].pc \in {"waiting", "fetching"}}

\* C23: if every fetch completes and the lock is granted fairly, every
\* get_events call in progress comes to an end, and whenever no call is in
\* progress the lock is free.
C23_NoStarvation ==
    /\ [](InProgress = {} => mutex = 0)
    /\ \A r \in Readers : (r \in InProgress) ~> (r \notin InProgress)

\* Both calls have returned, one of them with the error of its fetch, and
\* the lock is free.
C23_Witness ==
    /\ \A r \in Readers : reader[r].pc = "done"
    /\ \E r \in Readers : IsErr(reader[r].events)
    /\ \E r \in Readers : IsOk(reader[r].events)
    /\ mutex = 0

====
